---- MODULE Spec2Model ----
(***************************************************************************)
(* Model of streamlit_kpi_app.py: the duration parser, the row extractor,  *)
(* the page walk of one month (scrape_kpi_data), the normalizer            *)
(* (process_kpi_data), the delivery step (upload_to_ftp) and the run over  *)
(* the selected months (main).                                             *)
(*                                                                         *)
(* Text is modelled as a sequence of one-character strings, so that the    *)
(* regular-expression searches, int(), str(), strip() and replace() of the *)
(* source are computed character by character.                             *)
(***************************************************************************)
EXTENDS Integers, Sequences, FiniteSets, TLC

VARIABLES
    duration_str,     \* parse_live_duration: the argument
    duration_ret,     \* parse_live_duration: [called, value]
    rows,             \* one page's table rows (each a sequence of cell texts)
    raw_df,           \* the records extracted from rows: [exc, df]
    processed_df,     \* process_kpi_data(raw_df): [exc, df]
    reprocessed_df,   \* process_kpi_data(processed_df): [exc, df]
    stage,            \* position of the extract/normalize pipeline
    selected_labels,  \* main: the months chosen in the multiselect
    pc,               \* main: position of the run
    mi,               \* main: index into selected_months of the current month
    page,             \* scrape_kpi_data: the loop variable
    requested,        \* scrape_kpi_data: pages passed to session.get, in order
    pages,            \* scrape_kpi_data: the responses received, in order
    all_records,      \* scrape_kpi_data: the accumulated records
    stop,             \* scrape_kpi_data: why the walk of this month ended
    all_success,      \* main: the run-level flag
    started,          \* main: months whose walk was started, in order
    uploads,          \* upload_to_ftp: outcome per month handed to it
    outcome           \* main: the summary shown at the end of the run

durVars  == <<duration_str, duration_ret>>
pipeVars == <<rows, raw_df, processed_df, reprocessed_df, stage>>
runVars  == <<selected_labels, pc, mi, page, requested, pages, all_records,
              stop, all_success, started, uploads, outcome>>
vars     == <<durVars, pipeVars, runVars>>

(***************************************************************************)
(* Bounds of the model.                                                    *)
(***************************************************************************)
MaxTokens == 4      \* a duration text is a concatenation of at most this many fragments
MaxRows == 2        \* rows of the page handed to the extract/normalize pipeline
NumMonths == 2      \* months offered by the multiselect

(***************************************************************************)
(* Program constants.                                                      *)
(***************************************************************************)
MAX_PAGES == 5
ROW_CELLS == 27

(***************************************************************************)
(* Text helpers: Python str operations on sequences of characters.         *)
(***************************************************************************)
DigitChars == <<"0", "1", "2", "3", "4", "5", "6", "7", "8", "9">>
Digits == {DigitChars[i] : i \in 1..10}
DigitVal(c) == (CHOOSE i \in 1..10 : DigitChars[i] = c) - 1

IsWhite(c) == c = " "

\* the function f as a table of its values: a function constructor is
\* evaluated anew at each application, a table is computed once
Tabulate(f) == f @@ <<>>

RECURSIVE LStrip(_)
LStrip(s) == IF s # <<>> /\ IsWhite(Head(s)) THEN LStrip(Tail(s)) ELSE s

RECURSIVE RStrip(_)
RStrip(s) ==
    IF s # <<>> /\ IsWhite(s[Len(s)]) THEN RStrip(SubSeq(s, 1, Len(s) - 1)) ELSE s

\* str.strip()
Strip(s) == RStrip(LStrip(s))

\* str.replace(c, '') for a one-character c
Remove(s, c) == SelectSeq(s, LAMBDA x : x # c)

\* int() of a non-empty string of decimal digits
RECURSIVE int(_)
int(s) ==
    IF s = <<>> THEN 0
    ELSE 10 * int(SubSeq(s, 1, Len(s) - 1)) + DigitVal(s[Len(s)])

\* str() of a non-negative integer
RECURSIVE NatToStr(_)
NatToStr(n) ==
    IF n < 10 THEN <<DigitChars[n + 1]>>
    ELSE NatToStr(n \div 10) \o <<DigitChars[(n % 10) + 1]>>

\* str() of an integer
IntToStr(n) == IF n < 0 THEN <<"-">> \o NatToStr(-n) ELSE NatToStr(n)

\* zero-padded decimal of width w (strftime's %m, %d, %H, %M, %S, %Y)
RECURSIVE Pad(_, _)
Pad(s, w) == IF Len(s) >= w THEN s ELSE Pad(<<"0">> \o s, w)

\* the end of the maximal run of digits of s that starts at position i
\* (the greedy \d+ of the regular expressions): the first position >= i
\* that holds no digit
RECURSIVE DigitRunEnd(_, _)
DigitRunEnd(s, i) ==
    IF i <= Len(s) /\ s[i] \in Digits THEN DigitRunEnd(s, i + 1) ELSE i

(***************************************************************************)
(* parse_live_duration                                                     *)
(***************************************************************************)
\* r'\((\d+)m(\d+)s\)' tried at position i: [ok, minutes, seconds]
DurationMatchAt(s, i) ==
    LET j == DigitRunEnd(s, i + 1)      \* position of "m"
        k == DigitRunEnd(s, j + 1)      \* position of "s"
        ok == /\ i <= Len(s) /\ s[i] = "("
              /\ j > i + 1 /\ j <= Len(s) /\ s[j] = "m"
              /\ k > j + 1 /\ k + 1 <= Len(s) /\ s[k] = "s" /\ s[k + 1] = ")"
    IN  IF ok
        THEN [ok |-> TRUE, minutes |-> int(SubSeq(s, i + 1, j - 1)),
              seconds |-> int(SubSeq(s, j + 1, k - 1))]
        ELSE [ok |-> FALSE, minutes |-> 0, seconds |-> 0]

\* re.search: the match at the leftmost position that has one
RECURSIVE DurationSearch(_, _)
DurationSearch(s, i) ==
    IF i > Len(s) THEN [ok |-> FALSE, minutes |-> 0, seconds |-> 0]
    ELSE IF DurationMatchAt(s, i).ok THEN DurationMatchAt(s, i)
    ELSE DurationSearch(s, i + 1)

\* a rounding that rounds up only past 30 seconds
RoundMinutes_gt(minutes, seconds) ==
    IF seconds > 30 THEN minutes + 1 ELSE minutes

\* lines 89-93: from 30 seconds on the minute count is rounded up
RoundMinutes(minutes, seconds) ==
    IF seconds >= 30 THEN minutes + 1 ELSE minutes

parse_live_duration(s) ==
    LET match == DurationSearch(s, 1)
    IN  IF ~match.ok THEN 0 ELSE RoundMinutes(match.minutes, match.seconds)

(***************************************************************************)
(* Cell values.  A scraped cell is a string; the duration is an int; the   *)
(* normalizer produces nullable integers (Int64) and floats.  A float of   *)
(* the rate column is held after round(1), as a whole number of tenths.    *)
(***************************************************************************)
StrV(s) == [t |-> "str", s |-> s]
IntV(n) == [t |-> "int", n |-> n]
FltV(x) == [t |-> "float", tenths |-> x]
NAV == [t |-> "na"]

\* the 28 headers of lines 108-116, in order (English names for the labels)
CSV_HEADERS ==
    <<"account_id", "room_id", "start_datetime", "duration_min", "streak_days",
      "room_name", "total_views", "member_views", "action_members",
      "sp_gift_rate", "first_room_visitors", "first_sr_visitors", "short_stay",
      "room_level", "followers", "follower_delta", "post_users",
      "support_points", "comments", "comment_users", "first_comment_users",
      "gifts", "gift_users", "first_gift_users", "sg_gift_count",
      "sg_gift_users", "sg_total", "bonus_pre_2023_09">>

HeaderSet == {CSV_HEADERS[i] : i \in 1..Len(CSV_HEADERS)}

\* pd.DataFrame(): no columns, no rows
EmptyFrame == [columns |-> <<>>, data |-> <<>>]

\* DataFrame.empty
IsEmpty(df) == df.data = <<>> \/ df.columns = <<>>

(***************************************************************************)
(* Row extractor: lines 141-184 of scrape_kpi_data                         *)
(***************************************************************************)
\* r'(\d{4}-\d{2}-\d{2} \d{2}:\d{2}:\d{2})', "d" standing for \d
TsPattern ==
    <<"d", "d", "d", "d", "-", "d", "d", "-", "d", "d", " ",
      "d", "d", ":", "d", "d", ":", "d", "d">>

TsMatchAt(s, i) ==
    /\ i + Len(TsPattern) - 1 <= Len(s)
    /\ \A k \in 1..Len(TsPattern) :
          IF TsPattern[k] = "d" THEN s[i + k - 1] \in Digits
          ELSE s[i + k - 1] = TsPattern[k]

\* re.search: the leftmost position with a match, 0 when there is none
RECURSIVE TsSearch(_, _)
TsSearch(s, i) ==
    IF i > Len(s) THEN 0
    ELSE IF TsMatchAt(s, i) THEN i
    ELSE TsSearch(s, i + 1)

IsLeap(y) == (y % 4 = 0 /\ y % 100 # 0) \/ y % 400 = 0

DaysInMonth(y, m) ==
    IF m = 2 THEN (IF IsLeap(y) THEN 29 ELSE 28)
    ELSE IF m \in {4, 6, 9, 11} THEN 30 ELSE 31

\* datetime.strptime(g, '%Y-%m-%d %H:%M:%S') of a matched group g:
\* the fields, and whether they form a datetime (otherwise ValueError)
strptime(g) ==
    LET y  == int(SubSeq(g, 1, 4))
        mo == int(SubSeq(g, 6, 7))
        d  == int(SubSeq(g, 9, 10))
        h  == int(SubSeq(g, 12, 13))
        mi_ == int(SubSeq(g, 15, 16))
        sec == int(SubSeq(g, 18, 19))
    IN  [ok |-> /\ y >= 1 /\ mo \in 1..12 /\ d >= 1 /\ d <= DaysInMonth(y, mo)
                /\ h <= 23 /\ mi_ <= 59 /\ sec <= 59,
         year |-> y, month |-> mo, day |-> d,
         hour |-> h, minute |-> mi_, second |-> sec]

\* start_datetime.strftime('%Y/%m/%d %H:%M:%S')
strftime(dt) ==
    Pad(NatToStr(dt.year), 4) \o <<"/">> \o Pad(NatToStr(dt.month), 2)
        \o <<"/">> \o Pad(NatToStr(dt.day), 2) \o <<" ">>
        \o Pad(NatToStr(dt.hour), 2) \o <<":">> \o Pad(NatToStr(dt.minute), 2)
        \o <<":">> \o Pad(NatToStr(dt.second), 2)

\* lines 173-182: the value stored for logical column csv_col_index
CleanMetric(value, csv_col_index) ==
    IF csv_col_index >= 6 /\ csv_col_index <= 27
    THEN Strip(Remove(Remove(value, ","), "%"))
    ELSE Strip(value)

\* lines 147-184 for one row of 27 cells: [exc, record]
ExtractRow(cols) ==
    LET col_data == cols          \* col_data[i] of the source is col_data[i + 1]
        datetime_duration_str == Strip(col_data[3])
        at == TsSearch(datetime_duration_str, 1)
        parsed == strptime(SubSeq(datetime_duration_str, at, at + Len(TsPattern) - 1))
        record == Tabulate([h \in HeaderSet |->
            LET c == (CHOOSE i \in 1..Len(CSV_HEADERS) : CSV_HEADERS[i] = h) - 1
            IN  IF c = 0 THEN StrV(Strip(col_data[1]))
                ELSE IF c = 1 THEN StrV(Strip(col_data[2]))
                ELSE IF c = 2 THEN (IF at # 0 THEN StrV(strftime(parsed)) ELSE StrV(<<>>))
                ELSE IF c = 3 THEN IntV(parse_live_duration(datetime_duration_str))
                ELSE StrV(CleanMetric(col_data[c], c))])
    IN  IF at # 0 /\ ~parsed.ok
        THEN [exc |-> "ValueError", record |-> [h \in HeaderSet |-> NAV]]
        ELSE [exc |-> "none", record |-> record]

\* lines 140-188 for the rows of one page, in order:
\* [exc, records, data_found]; a row whose extraction raises ends the scan
RECURSIVE ScanRows(_, _, _)
ScanRows(rs, records, data_found) ==
    IF rs = <<>> THEN [exc |-> "none", records |-> records, data_found |-> data_found]
    ELSE IF Len(Head(rs)) # ROW_CELLS THEN ScanRows(Tail(rs), records, data_found)
    ELSE CHOOSE result \in
            { IF got.exc # "none"
              THEN [exc |-> got.exc, records |-> records, data_found |-> TRUE]
              ELSE ScanRows(Tail(rs), Append(records, got.record), TRUE) :
                got \in {ExtractRow(Head(rs))} } : TRUE

\* lines 190-195: what scrape_kpi_data returns for the accumulated records
FrameOf(records) ==
    IF records = <<>> THEN EmptyFrame
    ELSE [columns |-> CSV_HEADERS, data |-> records]

(***************************************************************************)
(* Normalizer: process_kpi_data                                            *)
(***************************************************************************)
\* lines 207-214
numeric_cols ==
    <<"duration_min", "streak_days", "total_views", "member_views",
      "action_members", "first_room_visitors", "first_sr_visitors",
      "short_stay", "room_level", "followers", "follower_delta", "post_users",
      "support_points", "comments", "comment_users", "first_comment_users",
      "gifts", "gift_users", "first_gift_users", "sg_gift_count",
      "sg_gift_users", "sg_total", "bonus_pre_2023_09">>

NumericSet == {numeric_cols[i] : i \in 1..Len(numeric_cols)}

\* line 236
dedupe_cols == <<"account_id", "room_id", "start_datetime", "duration_min">>

\* lines 245-253
final_cols == CSV_HEADERS

RECURSIVE Pow10(_)
Pow10(n) == IF n = 0 THEN 1 ELSE 10 * Pow10(n - 1)

Abs(n) == IF n < 0 THEN -n ELSE n

\* str() of a float held in tenths: "12.5", "12.0", "-0.5"
FloatToStr(x) ==
    (IF x < 0 THEN <<"-">> ELSE <<>>)
        \o NatToStr(Abs(x) \div 10) \o <<".">> \o <<DigitChars[(Abs(x) % 10) + 1]>>

\* Series.astype(str) of one cell
ToStr(v) ==
    IF v.t = "str" THEN v.s
    ELSE IF v.t = "int" THEN IntToStr(v.n)
    ELSE IF v.t = "float" THEN FloatToStr(v.tenths)
    ELSE <<"<", "N", "A", ">">>

\* pd.to_numeric of one string: an optional sign, digits, an optional point
\* and digits; anything else is coerced to NaN (ok = FALSE).
\* The number is mant / 10^scale.
ParseNumber(s) ==
    LET signed == s # <<>> /\ s[1] \in {"-", "+"}
        body == IF signed THEN Tail(s) ELSE s
        e == DigitRunEnd(body, 1)
        hasPoint == e <= Len(body) /\ body[e] = "."
        f == IF hasPoint THEN DigitRunEnd(body, e + 1) ELSE e
        ip == SubSeq(body, 1, e - 1)
        fp == IF hasPoint THEN SubSeq(body, e + 1, f - 1) ELSE <<>>
        m == int(ip \o fp)
    IN  [ok |-> f = Len(body) + 1 /\ Len(ip) + Len(fp) >= 1,
         mant |-> IF signed /\ s[1] = "-" THEN -m ELSE m,
         scale |-> Len(fp)]

\* Series.round(1) of mant / 10^scale, in tenths (ties to the even tenth)
RoundTenths(mant, scale) ==
    LET a == Abs(mant)
        d == IF scale >= 1 THEN Pow10(scale - 1) ELSE 1
        q == a \div d
        r == a % d
        up == IF 2 * r > d \/ (2 * r = d /\ q % 2 = 1) THEN q + 1 ELSE q
        t == IF scale = 0 THEN a * 10 ELSE up
    IN  IF mant < 0 THEN -t ELSE t

\* lines 218-221 for one cell of the rate column
RateCell(v) ==
    LET s == Strip(ToStr(v))
        p == ParseNumber(s)
    IN  IF s = <<>> \/ s = <<"-">> THEN NAV
        ELSE IF ~p.ok THEN NAV
        ELSE FltV(RoundTenths(p.mant, p.scale))

\* the cast of a float that is no whole number to Int64 raises TypeError
CastError == [t |-> "TypeError"]

\* lines 226-233 for one cell of an integer column
IntCell(v) ==
    LET s == Strip(ToStr(v))
        p == ParseNumber(s)
    IN  IF s = <<>> \/ s = <<"-">> THEN NAV
        ELSE IF ~p.ok THEN NAV
        ELSE IF Abs(p.mant) % Pow10(p.scale) = 0
        THEN IntV((IF p.mant < 0 THEN -1 ELSE 1) * (Abs(p.mant) \div Pow10(p.scale)))
        ELSE CastError

\* lines 216-233 for one record
ConvertRecord(rec) ==
    Tabulate([h \in HeaderSet |->
        IF h = "sp_gift_rate" THEN RateCell(rec[h])
        ELSE IF h \in NumericSet THEN IntCell(rec[h])
        ELSE rec[h]])

\* the values of the dedupe columns of one record
DedupeKey(rec) == [i \in 1..Len(dedupe_cols) |-> rec[dedupe_cols[i]]]

\* drop_duplicates that keeps the last record of each key
DropDuplicates_last(data) ==
    LET keep(i) == \A j \in (i + 1)..Len(data) : DedupeKey(data[j]) # DedupeKey(data[i])
        F[i \in 0..Len(data)] ==
            IF i = 0 THEN <<>>
            ELSE IF keep(i) THEN Append(F[i - 1], data[i]) ELSE F[i - 1]
    IN  F[Len(data)]

\* line 238: drop_duplicates(subset=dedupe_cols, keep='first')
DropDuplicates(data) ==
    LET keep(i) == \A j \in 1..(i - 1) : DedupeKey(data[j]) # DedupeKey(data[i])
        F[i \in 0..Len(data)] ==
            IF i = 0 THEN <<>>
            ELSE IF keep(i) THEN Append(F[i - 1], data[i]) ELSE F[i - 1]
    IN  F[Len(data)]

\* a rendering that writes a missing value as the text "0"
RenderCell_zero(v) == IF v = NAV THEN StrV(<<"0">>) ELSE v

\* lines 259-266: a missing value becomes the empty string
RenderCell(v) == IF v = NAV THEN StrV(<<>>) ELSE v

\* lines 216-233 for all records
ConvertAll(data) == Tabulate([i \in 1..Len(data) |-> ConvertRecord(data[i])])

\* lines 255-266: the final columns, missing values rendered
Finalize(deduped) ==
    Tabulate([i \in 1..Len(deduped) |->
        Tabulate([h \in HeaderSet |-> RenderCell(deduped[i][h])])])

\* lines 233-268, given the converted cells: the cast of line 233 raises,
\* or the records are deduplicated and finalized
AfterConversion(converted) ==
    IF \E i \in 1..Len(converted) : \E h \in NumericSet : converted[i][h] = CastError
    THEN [exc |-> "TypeError", df |-> EmptyFrame]
    ELSE [exc |-> "none",
          df |-> [columns |-> final_cols, data |-> Finalize(DropDuplicates(converted))]]

\* process_kpi_data: [exc, df]
process_kpi_data(df) ==
    IF IsEmpty(df) THEN [exc |-> "none", df |-> df]
    ELSE AfterConversion(ConvertAll(df.data))

(***************************************************************************)
(* Inputs: the texts and table rows the environment may supply.            *)
(***************************************************************************)
RECURSIVE Flatten(_)
Flatten(ss) == IF ss = <<>> THEN <<>> ELSE Head(ss) \o Flatten(Tail(ss))

\* fragments of duration texts
DurationTokens ==
    { <<"(">>, <<")">>, <<"m">>, <<"s">>, <<"1">>, <<"2", "9">>, <<"3", "0">>,
      <<"(", "1", "2", "m">>, <<"4", "5", "s", ")">>,
      <<"(", "7", "m", "0", "3", "s", ")">> }

DurationTexts ==
    { Flatten(ts) : ts \in UNION { [1..n -> DurationTokens] : n \in 0..MaxTokens } }

\* timestamps as they appear in the combined cell
TS_OK       == <<"2", "0", "2", "4", "-", "0", "5", "-", "0", "1", " ",
                 "2", "0", ":", "1", "5", ":", "0", "0">>
TS_MONTH13  == <<"2", "0", "2", "4", "-", "1", "3", "-", "0", "1", " ",
                 "0", "0", ":", "0", "0", ":", "0", "0">>
DUR_1230    == <<"(", "1", "2", "m", "3", "0", "s", ")">>
DUR_1229    == <<"(", "1", "2", "m", "2", "9", "s", ")">>

\* combined datetime+duration cells
DT_1230     == TS_OK \o <<" ">> \o DUR_1230
DT_1229     == TS_OK \o <<" ">> \o DUR_1229
DT_NONE     == <<"-">>
DT_MONTH13  == TS_MONTH13 \o <<" ">> \o DUR_1230

\* metric cells as scraped
MetricCells ==
    { <<"1", ",", "2", "3", "4">>, <<"-", "5">>, <<"1", "2", "%">>, <<>>, <<"-">>,
      <<"1", "2", ".", "5">> }

\* a table row of ROW_CELLS cells: cell k holds logical column k for k >= 4,
\* cells 1 and 2 the identifiers, cell 3 the combined datetime+duration
MkRow(account, dt, name, c, cell) ==
    [k \in 1..ROW_CELLS |->
        IF k = 1 THEN account
        ELSE IF k = 2 THEN <<"r">>
        ELSE IF k = 3 THEN dt
        ELSE IF k = 5 THEN name
        ELSE IF k = c THEN cell
        ELSE <<"0">>]

\* a row that is no data row (a header or separator): 3 cells
HeaderRow == << <<"h">>, <<"h">>, <<"h">> >>

KeyRows ==
    { MkRow(a, dt, n, 4, <<"0">>) :
        a \in {<<"a">>, <<"b">>}, dt \in {DT_1230, DT_1229, DT_NONE},
        n \in {<<"x">>, <<"y">>} }

\* logical columns 4 (streak_days), 7 (member_views), 9 (sp_gift_rate)
MetricRows ==
    { MkRow(<<"a">>, DT_1230, <<"x">>, c, cell) : c \in {4, 7, 9}, cell \in MetricCells }

BadTimestampRow == MkRow(<<"a">>, DT_MONTH13, <<"x">>, 4, <<"0">>)

SampleRows == KeyRows \cup MetricRows \cup {BadTimestampRow, HeaderRow}

RowSeqs == UNION { [1..n -> SampleRows] : n \in 0..MaxRows }

NoResult == [exc |-> "none", df |-> EmptyFrame]

DurIdle == duration_str = <<>> /\ duration_ret = [called |-> FALSE, value |-> 0]

PipeIdle ==
    /\ rows = <<>> /\ raw_df = NoResult /\ processed_df = NoResult
    /\ reprocessed_df = NoResult /\ stage = "idle"

RunIdle ==
    /\ selected_labels = {} /\ pc = "off" /\ mi = 0 /\ page = 0
    /\ requested = <<>> /\ pages = <<>> /\ all_records = <<>> /\ stop = "none"
    /\ all_success = TRUE /\ started = <<>> /\ uploads = <<>> /\ outcome = "none"

(***************************************************************************)
(* SpecDuration: parse_live_duration applied to a text.                    *)
(***************************************************************************)
InitDuration ==
    /\ duration_str \in DurationTexts
    /\ duration_ret = [called |-> FALSE, value |-> 0]
    /\ PipeIdle /\ RunIdle

CallParseLiveDuration ==
    /\ ~duration_ret.called
    /\ duration_ret' = [called |-> TRUE, value |-> parse_live_duration(duration_str)]
    /\ UNCHANGED <<duration_str, pipeVars, runVars>>

NextDuration == CallParseLiveDuration

SpecDuration == InitDuration /\ [][NextDuration]_vars

\* s holds "(<digits>m<digits>s)" from position i, with "m" at j and "s" at k
IsDurationSubstring(s, i, j, k) ==
    /\ s[i] = "(" /\ s[j] = "m" /\ s[k] = "s"
    /\ j > i + 1 /\ k > j + 1 /\ k + 1 <= Len(s) /\ s[k + 1] = ")"
    /\ \A x \in (i + 1)..(j - 1) : s[x] \in Digits
    /\ \A x \in (j + 1)..(k - 1) : s[x] \in Digits

DurationEnds(s, i) ==
    { jk \in ((i + 2)..Len(s)) \X ((i + 4)..Len(s)) :
        IsDurationSubstring(s, i, jk[1], jk[2]) }

DurationStarts(s) ==
    { i \in 1..Len(s) : s[i] = "(" /\ DurationEnds(s, i) # {} }

\* C10: parse_live_duration returns, for a text containing "(<m>m<s>s)", m + 1
\* when s >= 30 and m when s < 30, taken from the first such substring, and 0
\* for a text that contains no such substring.
Thm_C10 ==
    duration_ret.called =>
        LET s == duration_str
            starts == DurationStarts(s)
        IN  IF starts = {} THEN duration_ret.value = 0
            ELSE LET i == CHOOSE x \in starts : \A y \in starts : x <= y
                     jk == CHOOSE e \in DurationEnds(s, i) : TRUE
                     m == int(SubSeq(s, i + 1, jk[1] - 1))
                     sec == int(SubSeq(s, jk[1] + 1, jk[2] - 1))
                 IN  duration_ret.value = (IF sec >= 30 THEN m + 1 ELSE m)

\* a text with two duration substrings, "(12m45s)" before "(7m03s)", was
\* parsed to 13
Wit_C10 ==
    /\ duration_ret.called
    /\ Cardinality(DurationStarts(duration_str)) = 2
    /\ duration_str[1] = "("
    /\ duration_ret.value = 13

(***************************************************************************)
(* SpecPipeline: the rows of one page are extracted into records, the      *)
(* records are normalized, and the result is normalized once more.         *)
(***************************************************************************)
InitPipeline ==
    /\ rows \in RowSeqs
    /\ raw_df = NoResult /\ processed_df = NoResult /\ reprocessed_df = NoResult
    /\ stage = "rows"
    /\ DurIdle /\ RunIdle

\* lines 140-195 on the rows of one page
Extract ==
    /\ stage = "rows"
    /\ \E scan \in {ScanRows(rows, <<>>, FALSE)} :
           IF scan.exc # "none"
           THEN /\ raw_df' = [exc |-> scan.exc, df |-> EmptyFrame]
                /\ stage' = "raised"
           ELSE /\ raw_df' = [exc |-> "none", df |-> FrameOf(scan.records)]
                /\ stage' = "extracted"
    /\ UNCHANGED <<rows, processed_df, reprocessed_df, durVars, runVars>>

\* process_kpi_data on the extracted records
Process ==
    /\ stage = "extracted"
    /\ processed_df' = process_kpi_data(raw_df.df)
    /\ stage' = IF processed_df'.exc = "none" THEN "processed" ELSE "raised"
    /\ UNCHANGED <<rows, raw_df, reprocessed_df, durVars, runVars>>

\* process_kpi_data on its own output
Reprocess ==
    /\ stage = "processed"
    /\ reprocessed_df' = process_kpi_data(processed_df.df)
    /\ stage' = "reprocessed"
    /\ UNCHANGED <<rows, raw_df, processed_df, durVars, runVars>>

NextPipeline == Extract \/ Process \/ Reprocess

SpecPipeline == InitPipeline /\ [][NextPipeline]_vars

\* the dedupe key of a record as the claims name it
KeyOf(rec) == <<rec.account_id, rec.room_id, rec.start_datetime, rec.duration_min>>

\* indices of the records that are the first of their key
FirstOfKey(data) ==
    { i \in 1..Len(data) : \A j \in 1..(i - 1) : KeyOf(data[j]) # KeyOf(data[i]) }

\* the k-th smallest element of a set of indices
Nth(S, k) == CHOOSE i \in S : Cardinality({j \in S : j <= i}) = k

\* C5: the output of process_kpi_data has no two records with the same
\* (account id, room id, start-datetime, duration) key, holds for each key of
\* the input exactly the first input record with that key, in input order,
\* and has no more records than the input.
Thm_C5 ==
    stage \in {"processed", "reprocessed"} =>
        LET in == raw_df.df.data
            out == processed_df.df.data
            first == FirstOfKey(in)
        IN  /\ Len(out) <= Len(in)
            /\ \A a, b \in 1..Len(out) : a # b => KeyOf(out[a]) # KeyOf(out[b])
            /\ Len(out) = Cardinality(first)
            /\ \A k \in 1..Len(out) :
                  /\ KeyOf(out[k]) = KeyOf(in[Nth(first, k)])
                  /\ out[k].room_name = in[Nth(first, k)].room_name

\* two records of one key and different room names were collapsed to one
Wit_C5 ==
    /\ stage = "processed"
    /\ Len(raw_df.df.data) = 2
    /\ KeyOf(raw_df.df.data[1]) = KeyOf(raw_df.df.data[2])
    /\ raw_df.df.data[1].room_name # raw_df.df.data[2].room_name
    /\ Len(processed_df.df.data) = 1

\* C8: process_kpi_data on its own output returns a table equal to that
\* output: same records, same order, same columns, same cell values.
Thm_C8 ==
    stage = "reprocessed" =>
        /\ reprocessed_df.exc = "none"
        /\ reprocessed_df.df.columns = processed_df.df.columns
        /\ reprocessed_df.df.data = processed_df.df.data

\* a table of two records, with an empty integer cell, an integer and a rate,
\* was normalized twice
Wit_C8 ==
    /\ stage = "reprocessed"
    /\ Len(processed_df.df.data) = 2
    /\ processed_df.df.data[1].member_views = StrV(<<>>)
    /\ processed_df.df.data[1].sp_gift_rate = FltV(0)
    /\ processed_df.df.data[2].duration_min = IntV(12)

\* the rows whose extraction the claims speak of: those of 27 cells
DataRows == SelectSeq(rows, LAMBDA r : Len(r) = ROW_CELLS)

\* C7 (as claimed): every 27-cell row yields a record and extraction raises no
\* error, whatever its combined datetime+duration cell holds; a cell without
\* a timestamp gives an empty start-datetime, one without a duration gives 0.
Claim_C7 ==
    stage # "rows" =>
        /\ raw_df.exc = "none"
        /\ Len(raw_df.df.data) = Len(DataRows)
        /\ \A i \in 1..Len(raw_df.df.data) :
              /\ TsSearch(DataRows[i][3], 1) = 0 =>
                    raw_df.df.data[i].start_datetime = StrV(<<>>)
              /\ DurationStarts(DataRows[i][3]) = {} =>
                    raw_df.df.data[i].duration_min = IntV(0)

\* the final value is the number n (an integer, or the float n.0 of the rate)
IsNumber(v, n) == v = IntV(n) \/ v = FltV(10 * n)

\* the logical columns the normalizer converts to a number from a scraped cell
ConvertedColumns ==
    { c \in 4..27 : CSV_HEADERS[c + 1] \in NumericSet \cup {"sp_gift_rate"} }

\* C9 (as claimed): in every converted column "1,234" ends as 1234, "-5" as
\* -5, "12%" as 12, and an empty or lone-hyphen cell as the empty string.
Claim_C9 ==
    (stage = "processed" /\ Len(processed_df.df.data) = Len(rows)) =>
        \A i \in 1..Len(rows) : \A c \in ConvertedColumns :
            LET cell == rows[i][c]
                v == processed_df.df.data[i][CSV_HEADERS[c + 1]]
            IN  /\ cell = <<"1", ",", "2", "3", "4">> => IsNumber(v, 1234)
                /\ cell = <<"-", "5">> => IsNumber(v, -5)
                /\ cell = <<"1", "2", "%">> => IsNumber(v, 12)
                /\ cell \in {<<>>, <<"-">>} => v = StrV(<<>>)

(***************************************************************************)
(* Spec: a run of main over the selected months.  One step of the page     *)
(* walk is one iteration of the loop of scrape_kpi_data (lines 118-188):   *)
(* the request, the parse of the response and the extraction of its rows.  *)
(* The environment supplies each response and the outcome of each upload.  *)
(***************************************************************************)
\* rows of the report pages
RowV1 == MkRow(<<"a">>, DT_1230, <<"x">>, 4, <<"0">>)
RowV2 == MkRow(<<"b">>, DT_1229, <<"y">>, 7, <<"1", ",", "2", "3", "4">>)
RowFraction == MkRow(<<"a">>, DT_1229, <<"x">>, 7, <<"1", "2", ".", "5">>)

\* table bodies of the report pages
PageBodies ==
    { <<>>, <<HeaderRow>>, <<RowV1>>, <<HeaderRow, RowV1, RowV2>>,
      <<RowV1, RowFraction>>, <<BadTimestampRow>> }

\* what session.get and the parse of its body can give:
\*   error    - session.get or raise_for_status raised a RequestException
\*   no_table - the body holds no table of class table-striped
\*   no_tbody - the table holds no tbody
\*   table    - the table body holds rows
Responses ==
    { [kind |-> k, rows |-> <<>>] : k \in {"error", "no_table", "no_tbody"} }
        \cup { [kind |-> "table", rows |-> b] : b \in PageBodies }

\* environment of upload_to_ftp: the secrets are there and the transfer
\* works, the secrets lack an ftp key, the FTP session raises
FtpEnvs == {"ok", "no_secrets", "ftp_error"}

\* get_target_months: the months from 2023/09 (month 0) to the current month
\* (month NumMonths - 1), newest first
month_options == [i \in 1..NumMonths |-> NumMonths - i]

\* lines 359-361
selected_months == SelectSeq(month_options, LAMBDA m : m \in selected_labels)

\* a walk that goes on to the next page after a failed request
OnRequestError_continue == "none"

\* lines 125-127: a failed request ends the walk
OnRequestError == "error"

\* a walk that goes on to the next page after a page without data rows
OnNoData_continue == "none"

\* lines 186-188: a page without data rows ends the walk
OnNoData == "no_rows"

\* lines 119-188, one iteration on response resp with the records so far:
\* [exc, records, stop]; stop = "none" lets the loop go on
\* lines 186-188 after the rows of a page were scanned
AfterScan(scan) ==
    IF scan.exc # "none"
    THEN [exc |-> scan.exc, records |-> scan.records, stop |-> scan.exc]
    ELSE IF ~scan.data_found
    THEN [exc |-> "none", records |-> scan.records, stop |-> OnNoData]
    ELSE [exc |-> "none", records |-> scan.records, stop |-> "none"]

PageStep(resp, records) ==
    IF resp.kind = "error"
    THEN [exc |-> "none", records |-> records, stop |-> OnRequestError]
    ELSE IF resp.kind = "no_table"
    THEN [exc |-> "AttributeError", records |-> records, stop |-> "AttributeError"]
    ELSE IF resp.kind = "no_tbody"
    THEN [exc |-> "none", records |-> records, stop |-> "no_tbody"]
    ELSE AfterScan(ScanRows(resp.rows, records, FALSE))

\* upload_to_ftp: what became of the table handed to it
upload_to_ftp(df, env) ==
    IF IsEmpty(df) THEN "skipped"
    ELSE IF env = "no_secrets" THEN "no_secrets"
    ELSE IF env = "ftp_error" THEN "ftp_error"
    ELSE "stored"

Init ==
    /\ selected_labels \in SUBSET {month_options[i] : i \in 1..NumMonths}
    /\ pc = "ready" /\ mi = 0 /\ page = 0
    /\ requested = <<>> /\ pages = <<>> /\ all_records = <<>> /\ stop = "none"
    /\ all_success = TRUE /\ started = <<>> /\ uploads = <<>> /\ outcome = "none"
    /\ DurIdle /\ PipeIdle

\* lines 354-356, 368-369: the button is shown only for a non-empty selection
ClickRun ==
    /\ pc = "ready" /\ selected_labels # {}
    /\ all_success' = TRUE
    /\ mi' = 1
    /\ pc' = "loop"
    /\ UNCHANGED <<selected_labels, page, requested, pages, all_records, stop,
                   started, uploads, outcome, durVars, pipeVars>>

\* lines 373-377 and 99-105: the walk of the next selected month begins
StartMonth ==
    /\ pc = "loop" /\ mi <= Len(selected_months)
    /\ started' = Append(started, selected_months[mi])
    /\ page' = 1 /\ requested' = <<>> /\ pages' = <<>>
    /\ all_records' = <<>> /\ stop' = "none"
    /\ pc' = "walk"
    /\ UNCHANGED <<selected_labels, mi, all_success, uploads, outcome,
                   durVars, pipeVars>>

\* lines 118-188: one iteration of the page loop
FetchPage(resp) ==
    /\ pc = "walk" /\ page <= MAX_PAGES
    /\ requested' = Append(requested, page)
    /\ pages' = Append(pages, resp)
    /\ \E step \in {PageStep(resp, all_records)} :
           /\ all_records' = step.records
           /\ IF step.exc # "none"
              THEN /\ pc' = "crashed" /\ stop' = step.stop
                   /\ outcome' = "exception" /\ page' = page
              ELSE IF step.stop # "none"
              THEN /\ pc' = "walked" /\ stop' = step.stop
                   /\ outcome' = outcome /\ page' = page
              ELSE IF page = MAX_PAGES
              THEN /\ pc' = "walked" /\ stop' = "page_bound"
                   /\ outcome' = outcome /\ page' = page
              ELSE /\ pc' = "walk" /\ stop' = "none"
                   /\ outcome' = outcome /\ page' = page + 1
    /\ UNCHANGED <<selected_labels, mi, all_success, started, uploads,
                   durVars, pipeVars>>

\* lines 190-195 and 380-400: the walk returns its table; an empty table
\* skips the month, any other is normalized and handed to upload_to_ftp
FinishMonth(env) ==
    /\ pc = "walked"
    /\ \E processed \in {process_kpi_data(FrameOf(all_records))} :
           IF all_records = <<>>
           THEN /\ all_success' = FALSE
                /\ mi' = mi + 1 /\ pc' = "loop"
                /\ UNCHANGED <<uploads, outcome>>
           ELSE IF processed.exc # "none"
           THEN /\ pc' = "crashed" /\ outcome' = "exception"
                /\ UNCHANGED <<all_success, mi, uploads>>
           ELSE IF ~IsEmpty(processed.df)
           THEN /\ uploads' = Append(uploads,
                        [month |-> selected_months[mi],
                         result |-> upload_to_ftp(processed.df, env)])
                /\ mi' = mi + 1 /\ pc' = "loop"
                /\ UNCHANGED <<all_success, outcome>>
           ELSE /\ all_success' = FALSE
                /\ mi' = mi + 1 /\ pc' = "loop"
                /\ UNCHANGED <<uploads, outcome>>
    /\ UNCHANGED <<selected_labels, page, requested, pages, all_records, stop,
                   started, durVars, pipeVars>>

\* lines 402-406: the summary of the run
Report ==
    /\ pc = "loop" /\ mi > Len(selected_months)
    /\ outcome' = IF all_success THEN "success" ELSE "partial"
    /\ pc' = "done"
    /\ UNCHANGED <<selected_labels, mi, page, requested, pages, all_records,
                   stop, all_success, started, uploads, durVars, pipeVars>>

Next ==
    \/ ClickRun
    \/ StartMonth
    \/ \E resp \in Responses : FetchPage(resp)
    \/ \E env \in FtpEnvs : FinishMonth(env)
    \/ Report

Spec == Init /\ [][Next]_vars

\* the number of valid (27-cell) rows a response yields
ValidRowCount(resp) ==
    IF resp.kind = "table"
    THEN Len(SelectSeq(resp.rows, LAMBDA r : Len(r) = ROW_CELLS))
    ELSE 0

\* C1: the pages requested in one month are exactly 1, 2, ..., k in increasing
\* order, each once, with k <= 5, and no page is requested after the first
\* page that yields zero valid rows.
Thm_C1 ==
    /\ Len(requested) <= MAX_PAGES
    /\ \A i \in 1..Len(requested) : requested[i] = i
    /\ Len(pages) = Len(requested)
    /\ \A i \in 1..Len(pages) : ValidRowCount(pages[i]) = 0 => i = Len(pages)

\* pages 1 and 2 had valid rows, page 3 had a table without rows, and the walk
\* ended after exactly the requests 1, 2, 3
Wit_C1 ==
    /\ pc = "walked"
    /\ requested = <<1, 2, 3>>
    /\ ValidRowCount(pages[1]) > 0 /\ ValidRowCount(pages[2]) > 0
    /\ pages[3] = [kind |-> "table", rows |-> <<>>]

\* C2 (as claimed): a response without the results table ends the walk as a
\* normal end of data: no exception, no further page.
Claim_C2 ==
    \A p \in 1..Len(pages) :
        pages[p].kind = "no_table" => (p = Len(pages) /\ pc # "crashed")

\* the months for which upload_to_ftp stored the file
Delivered == { uploads[i].month : i \in {j \in 1..Len(uploads) : uploads[j].result = "stored"} }

\* C3 (as claimed): the run reports success only if every selected month
\* produced a non-empty table that was delivered.
Claim_C3 ==
    outcome = "success" =>
        \A i \in 1..Len(selected_months) : selected_months[i] \in Delivered

\* the records of the valid rows of the first n responses, page then row
RECURSIVE RecordsOfPages(_, _)
RecordsOfPages(ps, n) ==
    IF n = 0 THEN <<>>
    ELSE RecordsOfPages(ps, n - 1) \o ScanRows(ps[n].rows, <<>>, FALSE).records

\* C4: when the request for page p fails, no further page of the month is
\* requested, nothing is raised to the caller, and the walk returns exactly
\* the valid rows of pages 1..p-1 in page-then-row order.
Thm_C4 ==
    \A p \in 1..Len(pages) :
        pages[p].kind = "error" =>
            /\ p = Len(pages) /\ Len(requested) = p
            /\ stop = "error"
            /\ all_records = RecordsOfPages(pages, p - 1)

\* the request for page 3 failed after two pages with valid rows, and the
\* walk returned their three records
Wit_C4 ==
    /\ pc = "walked" /\ stop = "error"
    /\ Len(pages) = 3
    /\ Len(all_records) = 3
    /\ all_records[1].account_id # all_records[3].account_id

\* C6 (as claimed): when the run has ended, the walk of every selected month
\* was started exactly once, in order.
Claim_C6 ==
    pc \in {"done", "crashed"} => started = selected_months

====
